---- MODULE Spec2Model ----
\* GPS position matching for magnaprobe (stream) and SMP (event) data against
\* an Emlid reference track: run_magna_gps_correction.py and
\* run_smp_gps_correction.py.
\*
\* Instants are whole seconds since 1970-01-01 (pandas keeps nanoseconds; every
\* input here has whole seconds).  Coordinates are kept in arc-seconds
\* (decimal degrees * 3600) so that degree_dms2dec stays in the integers.
\* Text is a sequence of one-character strings.
\*
\* pandas behaviour relied on (pandas 2.x, which format='ISO8601' requires):
\*   - Series.searchsorted is a left bisection over the stored order;
\*   - DataFrame.apply(f, axis=1) on a frame with no rows calls f once on an
\*     all-NaN row to infer the result: when f raises, apply returns a copy of
\*     the (multi-column) frame, and assigning that to one column raises
\*     ValueError; when f returns a scalar, apply returns an empty column;
\*   - searchsorted(NaN) on a datetime column yields the column's length.
EXTENDS Integers, Sequences, FiniteSets, TLC

VARIABLES
    prog,            \* which script runs: "magna", "smp", "time", "match"
    pc,              \* position in the running function
    mode,            \* correction_file_type
    posfile,         \* rows of the Emlid .pos file, in file order
    df_emlid,        \* the reference track, or Unbound
    begin,           \* df_emlid.timestamp.iloc[0], or Unbound
    end,             \* df_emlid.timestamp.iloc[-1], or Unbound
    magna_in,        \* rows of the magnaprobe csv
    df_magna,        \* magnaprobe rows with timestamp_utc
    df_magna_trim,   \* retained magnaprobe rows, or Unbound
    dir,             \* os.listdir(path_smp_dir)
    smp_df,          \* one row per .PNT profile
    df_excel,        \* the catalog: the `file` column of the excel sheet
    list_rows,       \* per catalog row, the matching rows of smp_df
    df_smp_excel,    \* concatenation of list_rows, or Unbound
    output,          \* the table written, or Unbound
    printed,         \* the diagnostics printed so far
    error,           \* the exception that ended the run, or "none"
    lookups,         \* how many searchsorted lookups into df_emlid were made
    tm_in,           \* timestamp_magna arguments under test
    tm_out,          \* timestamp_magna result
    m_q,             \* query instant of the matcher under test
    m_out            \* matcher results under test

vars == <<prog, pc, mode, posfile, df_emlid, begin, end, magna_in, df_magna,
          df_magna_trim, dir, smp_df, df_excel, list_rows, df_smp_excel,
          output, printed, error, lookups, tm_in, tm_out, m_q, m_out>>

\* A Python name not yet bound, or a file not written, is <<>>; a bound name
\* holding v is <<v>>.  A cell holding None/NaN is <<>>, one holding v is <<v>>.
Unbound == <<>>
None == <<>>
Some(v) == <<v>>
Val(o) == o[1]

\* no exception has left the function
NoError == "none"

\* iloc past the end: the IndexError leaving get_lat_emlid / get_lon_emlid
IndexError == <<"IndexError", "single positional indexer is out-of-bounds">>

\* ---------------------------------------------------------------- bounds
MaxFix == 3
MaxRec == 2
MaxFiles == 2
MaxCat == 2
MaxTrack == 4
MaxInstant == 4

\* ------------------------------------------------------ program constants
LeapSeconds == 18
TailLen == 8

\* ------------------------------------------------------------------ text
Chars == <<"0", "1", "2", "3", "4", "5", "6", "7", "8", "9">>

DigitVal(c) == (CHOOSE i \in 1..10 : Chars[i] = c) - 1

\* int() of a run of digits
RECURSIVE ParseInt(_)
ParseInt(s) ==
    IF s = <<>> THEN 0
    ELSE ParseInt(SubSeq(s, 1, Len(s) - 1)) * 10 + DigitVal(s[Len(s)])

\* two-digit zero-padded rendering, as strftime('%H') and the logger print it
Fmt2(n) == <<Chars[(n \div 10) + 1], Chars[(n % 10) + 1]>>

\* Python slice s[a:b] for 0 <= a <= b
Slice(s, a, b) ==
    LET hi == IF b > Len(s) THEN Len(s) ELSE b
    IN  IF a >= hi THEN <<>> ELSE SubSeq(s, a + 1, hi)

\* Python slice s[-k:]
LastK(s, k) == IF Len(s) <= k THEN s ELSE SubSeq(s, Len(s) - k + 1, Len(s))

\* Python `frag in s` on str: frag occurs as a contiguous run of s
StrIn(frag, s) ==
    \E i \in 0..Len(s) :
        /\ i + Len(frag) <= Len(s)
        /\ Slice(s, i, i + Len(frag)) = frag

\* -------------------------------------------------------------- calendar
\* days since 1970-01-01 of a proleptic Gregorian date <<y, m, d>>
DaysFromCivil(date) ==
    LET y   == IF date[2] <= 2 THEN date[1] - 1 ELSE date[1]
        era == y \div 400
        yoe == y - era * 400
        mp  == IF date[2] > 2 THEN date[2] - 3 ELSE date[2] + 9
        doy == (153 * mp + 2) \div 5 + date[3] - 1
        doe == yoe * 365 + yoe \div 4 - yoe \div 100 + doy
    IN  era * 146097 + doe - 719468

\* the date <<y, m, d>> of a day number
CivilFromDays(z0) ==
    LET z   == z0 + 719468
        era == z \div 146097
        doe == z - era * 146097
        yoe == (doe - doe \div 1460 + doe \div 36524 - doe \div 146096) \div 365
        doy == doe - (365 * yoe + yoe \div 4 - yoe \div 100)
        mp  == (5 * doy + 2) \div 153
        d   == doy - (153 * mp + 2) \div 5 + 1
        m   == IF mp < 10 THEN mp + 3 ELSE mp - 9
        y   == yoe + era * 400 + (IF m <= 2 THEN 1 ELSE 0)
    IN  <<y, m, d>>

\* pd.to_datetime('YYYY-MM-DD' + 'T' + 'HH:MM:SS')
to_datetime(date, hms) ==
    DaysFromCivil(date) * 86400 + hms[1] * 3600 + hms[2] * 60 + hms[3]

\* fields of a pd.Timestamp
DateOf(t) == CivilFromDays(t \div 86400)
TimeOfDay(t) == t % 86400

\* ------------------------------------------------------- time normalizer
\* row_to_time: date and time strings parsed apart, recombined to the second
row_to_time(date_str, time_str) == to_datetime(date_str, time_str)

timestamp_magna_noleap(str_datetime, thisUTCtime) ==
    to_datetime(<<str_datetime[1], str_datetime[2], str_datetime[3]>>,
                <<ParseInt(Slice(thisUTCtime, 0, 2)),
                  ParseInt(Slice(thisUTCtime, 2, 4)),
                  ParseInt(Slice(thisUTCtime, 4, Len(thisUTCtime)))>>)

\* timestamp_magna: str_datetime is the logger TIMESTAMP <<y, m, d, h, mi, s>>,
\* thisUTCtime the 'HHMMSS' text
timestamp_magna(str_datetime, thisUTCtime) ==
    LET strtime == <<ParseInt(Slice(thisUTCtime, 0, 2)),
                     ParseInt(Slice(thisUTCtime, 2, 4)),
                     ParseInt(Slice(thisUTCtime, 4, Len(thisUTCtime)))>>
        date    == <<str_datetime[1], str_datetime[2], str_datetime[3]>>
    IN  to_datetime(date, strtime) + LeapSeconds

\* ---------------------------------------------------- coordinate converter
\* degree_dms2dec, in arc-seconds
degree_dms2dec(dd, mn, ss) ==
    IF dd >= 0 THEN dd * 3600 + mn * 60 + ss
    ELSE -((-dd) * 3600 + mn * 60 + ss)

\* ------------------------------------------------------------- matcher
\* numpy's left bisection over the stored order of column a
RECURSIVE Bisect(_, _, _, _)
Bisect(a, key, lo, hi) ==
    IF lo >= hi THEN lo
    ELSE LET mid == lo + ((hi - lo) \div 2)
         IN  IF a[mid + 1] < key THEN Bisect(a, key, mid + 1, hi)
             ELSE Bisect(a, key, lo, mid)

RECURSIVE BisectRight(_, _, _, _)
BisectRight(a, key, lo, hi) ==
    IF lo >= hi THEN lo
    ELSE LET mid == lo + ((hi - lo) \div 2)
         IN  IF a[mid + 1] <= key THEN BisectRight(a, key, mid + 1, hi)
             ELSE BisectRight(a, key, lo, mid)

Timestamps(df) == [i \in 1..Len(df) |-> df[i].timestamp]

searchsorted_right(df, key) == BisectRight(Timestamps(df), key, 0, Len(df))

\* df.timestamp.searchsorted(key): a 0-based position in 0..len(df)
searchsorted(df, key) == Bisect(Timestamps(df), key, 0, Len(df))

\* run_magna_gps_correction.get_lat_emlid: iloc raises past the end
get_lat_emlid(key, df) ==
    LET i == searchsorted(df, key)
    IN  IF i < Len(df) THEN Some(df[i + 1].lat) ELSE IndexError

get_lon_emlid(key, df) ==
    LET i == searchsorted(df, key)
    IN  IF i < Len(df) THEN Some(df[i + 1].lon) ELSE IndexError

\* run_smp_gps_correction.get_lat_emlid: any exception gives None
smp_get_lat_emlid(key, df) ==
    LET i == searchsorted(df, key)
    IN  IF i < Len(df) THEN Some(df[i + 1].lat) ELSE None

smp_get_lon_emlid(key, df) ==
    LET i == searchsorted(df, key)
    IN  IF i < Len(df) THEN Some(df[i + 1].lon) ELSE None

\* ------------------------------------------------ idle parts of the state
NoTrack == /\ mode = "" /\ posfile = <<>> /\ df_emlid = Unbound
           /\ begin = Unbound /\ end = Unbound

NoStream == magna_in = <<>> /\ df_magna = <<>> /\ df_magna_trim = Unbound

NoEvent == /\ dir = <<>> /\ smp_df = <<>> /\ df_excel = <<>>
           /\ list_rows = <<>> /\ df_smp_excel = Unbound

NoRun == output = Unbound /\ printed = {} /\ error = NoError /\ lookups = 0

NoTime == tm_in = None /\ tm_out = None

NoMatch == m_q = 0 /\ m_out = None

\* ===================================================== the two correctors
\* ---------------------------------------------------------------- inputs
Modes == {"PPK_correction", "PPP_correction", "ppk"}

FixDate == <<2023, 12, 15>>

\* clock times of the rows of the .pos file given to each script
MagnaFixClocks == {<<17, 11, 30>>, <<17, 11, 35>>, <<17, 11, 40>>}
SmpFixClocks == {<<17, 11, 30>>, <<17, 11, 40>>}

\* row i of a .pos file, logged at clock time c.  A PPK file carries lat/lon
\* in decimal degrees (columns 4 and 6), a PPP file carries the DMS columns.
PosRow(i, c) ==
    [date  |-> FixDate, time |-> c,
     lat   |-> 162000 + i, lon |-> -(270000 + i),
     LATDD |-> 45, LATMN |-> 0, LATSS |-> i,
     LONDD |-> -75, LONMN |-> 0, LONSS |-> i]

\* .pos files of up to MaxFix rows, in any row order
PosFiles(clocks) ==
    UNION {{[i \in 1..n |-> PosRow(i, cs[i])] : cs \in [1..n -> clocks]}
           : n \in 0..MaxFix}

\* UTC clock times the magnaprobe logged; 18 s later they are 17:11:25, :30,
\* :32, :37, :40 and :45
MagnaClocks == {<<17, 11, 7>>, <<17, 11, 12>>, <<17, 11, 14>>,
                <<17, 11, 19>>, <<17, 11, 22>>, <<17, 11, 27>>}

MagnaRow(c) ==
    [TIMESTAMP   |-> <<2023, 12, 15, c[1], c[2], c[3]>>,
     ThisUTCtime |-> Fmt2(c[1]) \o Fmt2(c[2]) \o Fmt2(c[3]),
     latitude_a  |-> 45, latitude_b |-> 30,
     Longitude_a |-> -75, Longitude_b |-> 15]

MagnaFiles ==
    UNION {{[i \in 1..n |-> MagnaRow(cs[i])] : cs \in [1..n -> MagnaClocks]}
           : n \in 0..MaxRec}

\* ------------------------------------------------------------ diagnostics
MsgInvalidMode == "enter a valid correction file"
MsgNoOverlap == "begin and end time of emlid do not match magnaprobe time"
MsgOutputCsv == "output csv file named"
MsgFailedLatLon == "failed to retrieve lat/lon"
MsgMissingFiles == "Some files from the excel sheet are missing in the directory, check files!"
MsgUnmatched == "Some position could not be matched, check excel file"
MsgCreated == "the excel file was created with updated position"

\* ------------------------------------------------ reference track loader
IsPPK(m) == m = "PPK_correction"

IsPPP_or_other(m) == m # "PPK_correction"

IsPPP(m) == m = "PPP_correction"

\* the PPK branch: columns 0, 1, 4, 6 renamed, timestamp from date and time
LoadPPK(rows) ==
    [i \in 1..Len(rows) |->
        [timestamp |-> row_to_time(rows[i].date, rows[i].time),
         lat |-> rows[i].lat, lon |-> rows[i].lon]]

\* the PPP branch: DMS columns converted, timestamp from date and time
LoadPPP(rows) ==
    [i \in 1..Len(rows) |->
        [timestamp |-> row_to_time(rows[i].date, rows[i].time),
         lat |-> degree_dms2dec(rows[i].LATDD, rows[i].LATMN, rows[i].LATSS),
         lon |-> degree_dms2dec(rows[i].LONDD, rows[i].LONMN, rows[i].LONSS)]]

RunUnchanged ==
    UNCHANGED <<prog, mode, posfile, magna_in, dir, df_excel, tm_in, tm_out,
                m_q, m_out>>

\* an exception leaves the function; __main__ turns it into its own ValueError
Raise(e) == pc' = "done" /\ error' = e

\* ------------------------------------------------------- stream corrector
\* magnaprobe_get_gps_correction, lines 156-175: read the csv, build df_emlid.
\* A .pos file without rows makes the timestamp column assignment raise.
M_LoadTrack ==
    /\ prog = "magna" /\ pc = "start"
    /\ IF IsPPK(mode) \/ IsPPP(mode)
       THEN IF posfile = <<>>
            THEN /\ Raise("ValueError")
                 /\ UNCHANGED <<df_emlid, printed>>
            ELSE /\ df_emlid' = Some(IF IsPPK(mode) THEN LoadPPK(posfile)
                                     ELSE LoadPPP(posfile))
                 /\ pc' = "loaded"
                 /\ UNCHANGED <<error, printed>>
       ELSE /\ printed' = printed \cup {MsgInvalidMode}
            /\ pc' = "loaded"
            /\ UNCHANGED <<df_emlid, error>>
    /\ UNCHANGED <<begin, end, df_magna, df_magna_trim, smp_df, list_rows,
                   df_smp_excel, output, lookups>>
    /\ RunUnchanged

\* lines 177-179: begin and end of the track as stored
M_BeginEnd ==
    /\ prog = "magna" /\ pc = "loaded"
    /\ IF df_emlid = Unbound
       THEN /\ Raise("UnboundLocalError")
            /\ UNCHANGED <<begin, end>>
       ELSE /\ begin' = Some(Val(df_emlid)[1].timestamp)
            /\ end' = Some(Val(df_emlid)[Len(Val(df_emlid))].timestamp)
            /\ pc' = "ranged"
            /\ UNCHANGED error
    /\ UNCHANGED <<df_emlid, df_magna, df_magna_trim, smp_df, list_rows,
                   df_smp_excel, output, printed, lookups>>
    /\ RunUnchanged

WithTimestampUtc(r) ==
    [TIMESTAMP |-> r.TIMESTAMP, ThisUTCtime |-> r.ThisUTCtime,
     latitude_a |-> r.latitude_a, latitude_b |-> r.latitude_b,
     Longitude_a |-> r.Longitude_a, Longitude_b |-> r.Longitude_b,
     timestamp_utc |-> timestamp_magna(r.TIMESTAMP, r.ThisUTCtime)]

KeepLower(t, b, e) == t > b

\* the row filter of line 184
Keep(t, b, e) == t > b /\ t < e

RECURSIVE SelectKept(_, _, _)
SelectKept(rows, b, e) ==
    IF rows = <<>> THEN <<>>
    ELSE LET rest == SelectKept(Tail(rows), b, e)
         IN  IF Keep(Head(rows).timestamp_utc, b, e)
             THEN <<Head(rows)>> \o rest ELSE rest

\* lines 181-186: timestamp_utc for every row, then the rows strictly inside
\* (begin, end).  The comparison does not raise, so the except is not taken.
\* A csv without rows makes the timestamp_utc column assignment raise.
M_Trim ==
    /\ prog = "magna" /\ pc = "ranged"
    /\ IF magna_in = <<>>
       THEN /\ Raise("ValueError")
            /\ UNCHANGED <<df_magna, df_magna_trim>>
       ELSE /\ df_magna' = [i \in 1..Len(magna_in) |-> WithTimestampUtc(magna_in[i])]
            /\ df_magna_trim' = Some(SelectKept(df_magna', Val(begin), Val(end)))
            /\ pc' = "trimmed"
            /\ UNCHANGED error
    /\ UNCHANGED <<df_emlid, begin, end, smp_df, list_rows, df_smp_excel,
                   output, printed, lookups>>
    /\ RunUnchanged

WithMagnaDecimal(r) ==
    [TIMESTAMP |-> r.TIMESTAMP, ThisUTCtime |-> r.ThisUTCtime,
     latitude_a |-> r.latitude_a, latitude_b |-> r.latitude_b,
     Longitude_a |-> r.Longitude_a, Longitude_b |-> r.Longitude_b,
     timestamp_utc |-> r.timestamp_utc,
     lat_magna |-> r.latitude_a * 3600 + r.latitude_b * 60,
     lon_magna |-> r.Longitude_a * 3600 + r.Longitude_b * 60]

\* lines 188-190: the probe's own position in decimal degrees
M_ConvertMagna ==
    /\ prog = "magna" /\ pc = "trimmed"
    /\ df_magna_trim' = Some([i \in 1..Len(Val(df_magna_trim)) |->
                                WithMagnaDecimal(Val(df_magna_trim)[i])])
    /\ pc' = "converted"
    /\ UNCHANGED <<df_emlid, begin, end, df_magna, smp_df, list_rows,
                   df_smp_excel, output, printed, error, lookups>>
    /\ RunUnchanged

\* df_magna_clean: the dropped columns are gone, the corrected ones added
CleanRow(r, track) ==
    [TIMESTAMP |-> r.TIMESTAMP, ThisUTCtime |-> r.ThisUTCtime,
     timestamp_utc |-> r.timestamp_utc,
     lat_magna |-> r.lat_magna, lon_magna |-> r.lon_magna,
     lat_emlid |-> Val(get_lat_emlid(r.timestamp_utc, track)),
     lon_emlid |-> Val(get_lon_emlid(r.timestamp_utc, track))]

\* 1-based positions of the rows whose lookup runs past the end of the track
OutOfBounds(rows, track) ==
    {i \in 1..Len(rows) : get_lat_emlid(rows[i].timestamp_utc, track) = IndexError}

HandlerCatchesNothing(e) == FALSE

\* `except ValueError as error` of line 206
HandlerCatches(e) == e = "ValueError"

Min(S) == CHOOSE x \in S : \A y \in S : x <= y

\* lines 193-208: the try block.  Without rows the lat_emlid column
\* assignment raises ValueError; a lookup past the end raises IndexError.
M_Extract ==
    /\ prog = "magna" /\ pc = "converted"
    /\ LET rows  == Val(df_magna_trim)
           track == Val(df_emlid)
           oob   == OutOfBounds(rows, track)
           raised == IF rows = <<>> THEN "ValueError"
                     ELSE IF oob # {} THEN "IndexError" ELSE NoError
       IN  /\ lookups' = (IF rows = <<>> THEN 1
                          ELSE IF oob # {} THEN Min(oob) ELSE 2 * Len(rows))
           /\ IF raised = NoError
              THEN /\ output' = Some([i \in 1..Len(rows) |-> CleanRow(rows[i], track)])
                   /\ printed' = printed \cup {MsgOutputCsv}
                   /\ UNCHANGED error
              ELSE IF HandlerCatches(raised)
              THEN /\ printed' = printed \cup {MsgFailedLatLon}
                   /\ UNCHANGED <<output, error>>
              ELSE /\ error' = raised
                   /\ UNCHANGED <<output, printed>>
    /\ pc' = "done"
    /\ UNCHANGED <<df_emlid, begin, end, df_magna, df_magna_trim, smp_df,
                   list_rows, df_smp_excel>>
    /\ RunUnchanged

\* -------------------------------------------------------- event corrector
NameA == <<"S", "4", "3", "M", "0", "0", "0", "1", ".", "p", "n", "t">>
NameB == <<"S", "4", "3", "M", "0", "0", "1", "2", ".", "p", "n", "t">>
NameC == <<"S", "1", "2", "M", "0", "0", "0", "3", ".", "P", "N", "T">>
NameD == <<"n", "o", "t", "e", "s", ".", "t", "x", "t">>

FileNames == {NameA, NameB, NameC, NameD}

\* directory listings: up to MaxFiles distinct files, in any order
Listings ==
    UNION {{l \in [1..n -> FileNames] : \A i, j \in 1..n : i # j => l[i] # l[j]}
           : n \in 0..MaxFiles}

\* values of the `file` column of the excel sheet
FileNumbers == {1, 12, 3}

Catalogs == UNION {[1..n -> FileNumbers] : n \in 0..MaxCat}

\* what Profile.load gives for each file: the UTC instant of the measurement
\* and the coordinates stored in the file, if any.  18 s later the instants
\* are 17:11:32 (A), 17:11:25 (B) and 17:11:45 (C).
ProfileOf(file) ==
    IF file = NameA
    THEN [timestamp |-> to_datetime(FixDate, <<17, 11, 14>>),
          coordinates |-> Some(<<162100, -270100>>)]
    ELSE IF file = NameB
    THEN [timestamp |-> to_datetime(FixDate, <<17, 11, 7>>),
          coordinates |-> None]
    ELSE [timestamp |-> to_datetime(FixDate, <<17, 11, 27>>),
          coordinates |-> Some(<<162300, -270300>>)]

\* str() of a non-negative int
RECURSIVE IntToText(_)
IntToText(n) ==
    IF n < 10 THEN <<Chars[n + 1]>>
    ELSE IntToText(n \div 10) \o <<Chars[(n % 10) + 1]>>

\* line 169: ".PNT" in file or ".pnt" in file
IsPnt(file) ==
    \/ StrIn(<<".", "P", "N", "T">>, file)
    \/ StrIn(<<".", "p", "n", "t">>, file)

ProfileRow(file) ==
    LET p == ProfileOf(file)
    IN  [name |-> file,
         timestamp |-> p.timestamp + LeapSeconds,
         lat |-> IF p.coordinates = None THEN None ELSE Some(Val(p.coordinates)[1]),
         lon |-> IF p.coordinates = None THEN None ELSE Some(Val(p.coordinates)[2])]

RECURSIVE LoadProfiles(_)
LoadProfiles(files) ==
    IF files = <<>> THEN <<>>
    ELSE IF IsPnt(Head(files))
         THEN <<ProfileRow(Head(files))>> \o LoadProfiles(Tail(files))
         ELSE LoadProfiles(Tail(files))

\* smp_get_gps_correction, lines 167-179: one row per .PNT file
S_LoadProfiles ==
    /\ prog = "smp" /\ pc = "start"
    /\ smp_df' = LoadProfiles(dir)
    /\ pc' = "profiled"
    /\ UNCHANGED <<df_emlid, begin, end, df_magna, df_magna_trim, list_rows,
                   df_smp_excel, output, printed, error, lookups>>
    /\ RunUnchanged

\* lines 181-199: `if PPK`, then a separate `if PPP ... else print`
S_LoadTrack ==
    /\ prog = "smp" /\ pc = "profiled"
    /\ IF (IsPPK(mode) \/ IsPPP(mode)) /\ posfile = <<>>
       THEN /\ Raise("ValueError")
            /\ UNCHANGED <<df_emlid, printed>>
       ELSE /\ df_emlid' = (IF IsPPP(mode) THEN Some(LoadPPP(posfile))
                            ELSE IF IsPPK(mode) THEN Some(LoadPPK(posfile))
                            ELSE df_emlid)
            /\ printed' = (IF IsPPP(mode) THEN printed
                           ELSE printed \cup {MsgInvalidMode})
            /\ pc' = "loaded"
            /\ UNCHANGED error
    /\ UNCHANGED <<begin, end, df_magna, df_magna_trim, smp_df, list_rows,
                   df_smp_excel, output, lookups>>
    /\ RunUnchanged

AssociatedAnywhere(file, name) == StrIn(IntToText(file), name)

\* line 205: str(row.file) in name[-8:]
Associated(file, name) == StrIn(IntToText(file), LastK(name, TailLen))

RECURSIVE Matching(_, _)
Matching(rows, file) ==
    IF rows = <<>> THEN <<>>
    ELSE IF Associated(file, Head(rows).name)
         THEN <<Head(rows)>> \o Matching(Tail(rows), file)
         ELSE Matching(Tail(rows), file)

RECURSIVE Concat(_)
Concat(frames) ==
    IF frames = <<>> THEN <<>> ELSE Head(frames) \o Concat(Tail(frames))

\* lines 201-211: the rows of smp_df matching each catalog row, concatenated;
\* a warning when the number of rows differs from the catalog's.  An empty
\* catalog leaves pd.concat nothing to concatenate; a directory without .PNT
\* files leaves smp_df without a name column.
S_MapCatalog ==
    /\ prog = "smp" /\ pc = "loaded"
    /\ IF df_excel = <<>>
       THEN /\ Raise("ValueError")
            /\ UNCHANGED <<list_rows, df_smp_excel, printed>>
       ELSE IF smp_df = <<>>
       THEN /\ Raise("AttributeError")
            /\ UNCHANGED <<list_rows, df_smp_excel, printed>>
       ELSE /\ list_rows' = [i \in 1..Len(df_excel) |-> Matching(smp_df, df_excel[i])]
            /\ df_smp_excel' = Some(Concat(list_rows'))
            /\ printed' = (IF Len(Val(df_smp_excel')) # Len(df_excel)
                           THEN printed \cup {MsgMissingFiles} ELSE printed)
            /\ pc' = "mapped"
            /\ UNCHANGED error
    /\ UNCHANGED <<df_emlid, begin, end, df_magna, df_magna_trim, smp_df,
                   output, lookups>>
    /\ RunUnchanged

WithEmlid(r, track) ==
    [name |-> r.name, timestamp |-> r.timestamp, lat |-> r.lat, lon |-> r.lon,
     lat_emlid |-> smp_get_lat_emlid(r.timestamp, track),
     lon_emlid |-> smp_get_lon_emlid(r.timestamp, track)]

\* lines 213-218: the corrected position of every mapped event, and a warning
\* when one is missing.  With df_emlid unbound the lambda raises NameError
\* outside get_lat_emlid's try; without rows the column assignment raises
\* ValueError instead.
S_Extract ==
    /\ prog = "smp" /\ pc = "mapped"
    /\ LET rows == Val(df_smp_excel)
       IN  IF df_emlid = Unbound
           THEN /\ Raise(IF rows = <<>> THEN "ValueError" ELSE "NameError")
                /\ UNCHANGED <<df_smp_excel, printed, lookups>>
           ELSE /\ df_smp_excel' = Some([i \in 1..Len(rows) |->
                                           WithEmlid(rows[i], Val(df_emlid))])
                /\ lookups' = (IF rows = <<>> THEN 2 ELSE 2 * Len(rows))
                /\ printed' = (IF \E i \in 1..Len(rows) :
                                     Val(df_smp_excel')[i].lat_emlid = None
                               THEN printed \cup {MsgUnmatched} ELSE printed)
                /\ pc' = "extracted"
                /\ UNCHANGED error
    /\ UNCHANGED <<df_emlid, begin, end, df_magna, df_magna_trim, smp_df,
                   list_rows, output>>
    /\ RunUnchanged

Max(a, b) == IF a >= b THEN a ELSE b

\* pd.concat([df_excel, df_smp_excel], axis=1): joined on the row position
ConcatColumns(excel, rows) ==
    [i \in 1..Max(Len(excel), Len(rows)) |->
        [file  |-> IF i <= Len(excel) THEN Some(excel[i]) ELSE None,
         event |-> IF i <= Len(rows) THEN Some(rows[i]) ELSE None]]

\* lines 220-222: the improved sheet
S_Write ==
    /\ prog = "smp" /\ pc = "extracted"
    /\ output' = Some(ConcatColumns(df_excel, Val(df_smp_excel)))
    /\ printed' = printed \cup {MsgCreated}
    /\ pc' = "done"
    /\ UNCHANGED <<df_emlid, begin, end, df_magna, df_magna_trim, smp_df,
                   list_rows, df_smp_excel, error, lookups>>
    /\ RunUnchanged

\* ------------------------------------------------------------ the program
InitMagna ==
    /\ prog = "magna" /\ pc = "start"
    /\ mode \in Modes
    /\ posfile \in PosFiles(MagnaFixClocks)
    /\ magna_in \in MagnaFiles
    /\ df_emlid = Unbound /\ begin = Unbound /\ end = Unbound
    /\ df_magna = <<>> /\ df_magna_trim = Unbound
    /\ NoEvent /\ NoRun /\ NoTime /\ NoMatch

InitSmp ==
    /\ prog = "smp" /\ pc = "start"
    /\ mode \in Modes
    /\ posfile \in PosFiles(SmpFixClocks)
    /\ dir \in Listings
    /\ df_excel \in Catalogs
    /\ df_emlid = Unbound /\ begin = Unbound /\ end = Unbound
    /\ smp_df = <<>> /\ list_rows = <<>> /\ df_smp_excel = Unbound
    /\ NoStream /\ NoRun /\ NoTime /\ NoMatch

Init == InitMagna \/ InitSmp

Next ==
    \/ M_LoadTrack
    \/ M_BeginEnd
    \/ M_Trim
    \/ M_ConvertMagna
    \/ M_Extract
    \/ S_LoadProfiles
    \/ S_LoadTrack
    \/ S_MapCatalog
    \/ S_Extract
    \/ S_Write

Spec == Init /\ [][Next]_vars

\* ------------------------------------------------------------- properties
IsSorted(ts) == \A i \in 1..(Len(ts) - 1) : ts[i] <= ts[i + 1]

Recognized == {"PPK_correction", "PPP_correction"}

InsideSpan(t) == Val(begin) < t /\ t < Val(end)

\* C2: in the stream path exactly the records with begin < correctedInstant <
\* end are retained, begin and end being the first and last fix instants
\* (records at either boundary are dropped), every retained record's
\* insertion index is below the track length, and no out-of-bounds lookup is
\* ever reached.
C2_TrimKeepsLookupsInBounds ==
    (prog = "magna" /\ df_magna_trim # Unbound)
    => LET track == Val(df_emlid)
           kept  == Val(df_magna_trim)
       IN  /\ begin = Some(track[1].timestamp)
           /\ end = Some(track[Len(track)].timestamp)
           /\ \A j \in 1..Len(kept) : InsideSpan(kept[j].timestamp_utc)
           /\ Len(kept) = Cardinality({i \in 1..Len(df_magna) :
                                          InsideSpan(df_magna[i].timestamp_utc)})
           /\ \A i \in 1..Len(df_magna) :
                 InsideSpan(df_magna[i].timestamp_utc)
                 => \E j \in 1..Len(kept) :
                       kept[j].timestamp_utc = df_magna[i].timestamp_utc
           /\ \A j \in 1..Len(kept) :
                 searchsorted(track, kept[j].timestamp_utc) < Len(track)
           /\ error # "IndexError"

\* a run that dropped a record at the end boundary and one after it, kept a
\* record strictly inside, and wrote it with a corrected position
C2_Witness ==
    /\ prog = "magna" /\ pc = "done" /\ output # Unbound
    /\ Len(Val(output)) = 1
    /\ Len(df_magna) = 2
    /\ \E i \in 1..Len(df_magna) : df_magna[i].timestamp_utc >= Val(end)

\* C3: once the reference track is loaded, in either script, its fixes are
\* in non-decreasing order of instant, whatever the order of the input rows.
C3_TrackSortedAfterLoad ==
    (prog \in {"magna", "smp"} /\ df_emlid # Unbound)
    => IsSorted(Timestamps(Val(df_emlid)))

\* C4: for a mode other than 'PPK_correction' and 'PPP_correction' both
\* scripts end with an error reported to the caller, after the invalid-mode
\* diagnostic, with no reference track built, no begin/end derived, no lookup
\* made and no output written.
C4_InvalidModeFails ==
    (prog \in {"magna", "smp"} /\ mode \notin Recognized)
    => /\ df_emlid = Unbound
       /\ begin = Unbound /\ end = Unbound
       /\ lookups = 0
       /\ output = Unbound
       /\ pc = "done" => (error # NoError /\ MsgInvalidMode \in printed)

\* the event script reaching its lookups with an invalid mode and failing there
C4_Witness ==
    /\ prog = "smp" /\ mode \notin Recognized /\ pc = "done"
    /\ df_smp_excel # Unbound /\ Val(df_smp_excel) # <<>>
    /\ error = "NameError"

\* C5: in the event path every mapped event whose instant lies before the
\* first fix or after the last fix of the (sorted) track is left with both
\* corrected coordinates unset, and the run still writes its output.
C5_OutsideSpanUnset ==
    (prog = "smp" /\ pc = "done" /\ df_emlid # Unbound
        /\ df_smp_excel # Unbound /\ IsSorted(Timestamps(Val(df_emlid))))
    => LET track == Val(df_emlid)
           rows  == Val(df_smp_excel)
       IN  /\ error = NoError
           /\ output # Unbound
           /\ \A i \in 1..Len(rows) :
                 (\/ rows[i].timestamp < track[1].timestamp
                  \/ rows[i].timestamp > track[Len(track)].timestamp)
                 => (rows[i].lat_emlid = None /\ rows[i].lon_emlid = None)

EventNames(rows) == {rows[k].name : k \in 1..Len(rows)}

\* C6: the written catalog is row-aligned: on output row i the appended event
\* is one matched to catalog row i, and is unset when catalog row i matched
\* no event.
C6_RowAligned ==
    (prog = "smp" /\ output # Unbound)
    => \A i \in 1..Len(df_excel) :
          /\ Val(output)[i].file = Some(df_excel[i])
          /\ IF list_rows[i] = <<>>
             THEN Val(output)[i].event = None
             ELSE /\ Val(output)[i].event # None
                  /\ Val(Val(output)[i].event).name \in EventNames(list_rows[i])

\* C7: in the event path, with a recognized mode, whenever some catalog entry
\* has zero or more than one matching event the missing-files warning is
\* reported and the run does not abort.
C7_MultiplicityWarned ==
    (prog = "smp" /\ mode \in Recognized /\ list_rows # <<>>
        /\ \E i \in 1..Len(list_rows) : Len(list_rows[i]) # 1)
    => (MsgMissingFiles \in printed /\ error = NoError)

OccursInTail(frag, name) ==
    \E p \in 1..Len(name) :
        /\ p > Len(name) - 8
        /\ p + Len(frag) - 1 <= Len(name)
        /\ \A j \in 1..Len(frag) : name[p + j - 1] = frag[j]

OccursAnywhere(frag, name) ==
    \E p \in 1..Len(name) :
        /\ p + Len(frag) - 1 <= Len(name)
        /\ \A j \in 1..Len(frag) : name[p + j - 1] = frag[j]

\* C10: a catalog entry is associated with an event exactly when its
\* filename fragment occurs as a contiguous run within the last 8 characters
\* of the event's name; an occurrence only earlier in the name does not
\* associate, and an event whose last 8 characters hold the fragments of two
\* catalog entries is associated with both.
C10_TailSubstring ==
    (prog = "smp" /\ list_rows # <<>>)
    => \A i \in 1..Len(df_excel) : \A k \in 1..Len(smp_df) :
          (smp_df[k].name \in EventNames(list_rows[i]))
          <=> OccursInTail(IntToText(df_excel[i]), smp_df[k].name)

\* one event associated with two catalog entries of different fragments, and
\* an event left out by an entry whose fragment occurs only early in its name
C10_Witness ==
    /\ prog = "smp" /\ list_rows # <<>> /\ Len(df_excel) = 2
    /\ df_excel[1] # df_excel[2]
    /\ \E k \in 1..Len(smp_df) :
          /\ smp_df[k].name \in EventNames(list_rows[1])
          /\ smp_df[k].name \in EventNames(list_rows[2])
    /\ \E k \in 1..Len(smp_df) :
          /\ OccursAnywhere(IntToText(df_excel[1]), smp_df[k].name)
          /\ smp_df[k].name \notin EventNames(list_rows[1])

\* C11: in both scripts the 'enter a valid correction file' diagnostic is
\* printed if and only if the mode is neither 'PPK_correction' nor
\* 'PPP_correction'; a 'PPK_correction' run that has built its reference track
\* never prints it.
C11_DiagnosticIffInvalidMode ==
    (prog \in {"magna", "smp"})
    => /\ MsgInvalidMode \in printed => mode \notin Recognized
       /\ (mode \notin Recognized /\ pc \notin {"start", "profiled"})
          => MsgInvalidMode \in printed
       /\ (mode = "PPK_correction" /\ df_emlid # Unbound)
          => MsgInvalidMode \notin printed

\* =================================================== timestamp_magna alone
TimeDates == {<<2023, 12, 15>>, <<2023, 12, 31>>, <<2023, 2, 28>>,
              <<2024, 2, 28>>, <<2024, 2, 29>>}

\* the logger's own clock reading, dropped by .date()
LoggerClocks == {<<17, 11, 2>>, <<23, 59, 59>>}

TimeHours == 0..23
TimeMinutes == {0, 11, 58, 59}
TimeSeconds == 0..59

\* the 'HHMMSS' text the probe logs for the UTC clock time hms
UtcText(hms) == Fmt2(hms[1]) \o Fmt2(hms[2]) \o Fmt2(hms[3])

InitTime ==
    /\ prog = "time" /\ pc = "start"
    /\ \E d \in TimeDates, c \in LoggerClocks,
          h \in TimeHours, mi \in TimeMinutes, s \in TimeSeconds :
          tm_in = [ts  |-> <<d[1], d[2], d[3], c[1], c[2], c[3]>>,
                   hms |-> <<h, mi, s>>,
                   utc |-> UtcText(<<h, mi, s>>)]
    /\ tm_out = None
    /\ NoTrack /\ NoStream /\ NoEvent /\ NoRun /\ NoMatch

ApplyTimestampMagna ==
    /\ prog = "time" /\ pc = "start"
    /\ tm_out' = timestamp_magna(tm_in.ts, tm_in.utc)
    /\ pc' = "done"
    /\ UNCHANGED <<prog, mode, posfile, df_emlid, begin, end, magna_in,
                   df_magna, df_magna_trim, dir, smp_df, df_excel, list_rows,
                   df_smp_excel, output, printed, error, lookups, tm_in,
                   m_q, m_out>>

NextTime == ApplyTimestampMagna

SpecTime == InitTime /\ [][NextTime]_vars

\* ======================================================= the matcher alone
\* the i-th fix of a test track: coordinates tell the fixes apart
TestFix(i, t) == [timestamp |-> t, lat |-> 162000 + i, lon |-> -(270000 + i)]

SortedInstantSeqs ==
    UNION {{ts \in [1..n -> 0..MaxInstant] : IsSorted(ts)} : n \in 1..MaxTrack}

InitMatch ==
    /\ prog = "match" /\ pc = "start"
    /\ \E ts \in SortedInstantSeqs :
          df_emlid = Some([i \in 1..Len(ts) |-> TestFix(i, ts[i])])
    /\ m_q \in 0..(MaxInstant + 1)
    /\ m_out = None
    /\ mode = "" /\ posfile = <<>> /\ begin = Unbound /\ end = Unbound
    /\ NoStream /\ NoEvent /\ NoRun /\ NoTime

MatchUnchanged ==
    UNCHANGED <<prog, mode, posfile, df_emlid, begin, end, magna_in,
                df_magna, df_magna_trim, dir, smp_df, df_excel, list_rows,
                df_smp_excel, output, printed, error, lookups, tm_in,
                tm_out, m_q>>

MatchMagna ==
    /\ prog = "match" /\ pc = "start"
    /\ m_out' = [lat |-> get_lat_emlid(m_q, Val(df_emlid)),
                 lon |-> get_lon_emlid(m_q, Val(df_emlid))]
    /\ pc' = "matched_magna"
    /\ MatchUnchanged

MatchSmp ==
    /\ prog = "match" /\ pc = "start"
    /\ m_out' = [lat |-> smp_get_lat_emlid(m_q, Val(df_emlid)),
                 lon |-> smp_get_lon_emlid(m_q, Val(df_emlid))]
    /\ pc' = "matched_smp"
    /\ MatchUnchanged

NextMatch == MatchMagna \/ MatchSmp

SpecMatch == InitMatch /\ [][NextMatch]_vars

IsLeapYear(y) == (y % 4 = 0 /\ y % 100 # 0) \/ y % 400 = 0

DaysInMonth(y, m) ==
    IF m = 2 THEN (IF IsLeapYear(y) THEN 29 ELSE 28)
    ELSE IF m \in {4, 6, 9, 11} THEN 30 ELSE 31

NextDay(d) ==
    IF d[3] < DaysInMonth(d[1], d[2]) THEN <<d[1], d[2], d[3] + 1>>
    ELSE IF d[2] < 12 THEN <<d[1], d[2] + 1, 1>>
    ELSE <<d[1] + 1, 1, 1>>

\* C9: for every valid 6-digit HHMMSS text and ISO date, timestamp_magna gives
\* the instant whose time of day is HH:MM:SS + 18 s on the date of the logger
\* timestamp, the date one day later exactly when HH:MM:SS >= 23:59:42; and
\* '171119' on 2023-12-15 gives 2023-12-15T17:11:37.
C9_LeapOffset ==
    (prog = "time" /\ pc = "done")
    => LET date == <<tm_in.ts[1], tm_in.ts[2], tm_in.ts[3]>>
           tod  == tm_in.hms[1] * 3600 + tm_in.hms[2] * 60 + tm_in.hms[3]
       IN  /\ TimeOfDay(tm_out) = (tod + 18) % 86400
           /\ DateOf(tm_out) = (IF tod >= 23 * 3600 + 59 * 60 + 42
                                THEN NextDay(date) ELSE date)
           /\ (date = <<2023, 12, 15>> /\ tm_in.utc = <<"1", "7", "1", "1", "1", "9">>)
              => (DateOf(tm_out) = <<2023, 12, 15>>
                  /\ TimeOfDay(tm_out) = 17 * 3600 + 11 * 60 + 37)

\* a reading in the last 18 seconds of 2023 lands on 2024-01-01
C9_Witness ==
    /\ prog = "time" /\ pc = "done"
    /\ tm_in.utc = <<"2", "3", "5", "9", "5", "9">>
    /\ tm_in.ts[1] = 2023 /\ tm_in.ts[2] = 12 /\ tm_in.ts[3] = 31
    /\ DateOf(tm_out) = <<2024, 1, 1>>
    /\ TimeOfDay(tm_out) = 17

====
